---- MODULE Spec2Model ----
(***************************************************************************)
(* A model of save-file-attrs: the capture of file attributes from a       *)
(* directory tree (save) and their selective re-application (restore).     *)
(*                                                                         *)
(* Conventions of the model                                                *)
(*  - A timestamp is a record [t, v]: t = "int" is a Python int holding    *)
(*    nanoseconds, t = "float" is a Python float holding seconds.  A float *)
(*    carries v in units of FloatTick nanoseconds, the resolution a double *)
(*    has left for a present-day epoch value, so that seconds -> ns is     *)
(*    v * FloatTick and ns -> seconds loses the remainder.                 *)
(*  - A bit mask of Windows file attributes is the set of its bit names.   *)
(*  - An OS call that can fail is given its outcome by the set `fails` of  *)
(*    call names that raise an OS error when issued.                       *)
(***************************************************************************)
EXTENDS Integers, Sequences, FiniteSets, TLC

VARIABLES
    platform,        \* SYSTEM_PLATFORM: "linux" or "windows"
    utime_nofollow,  \* os.utime in os.supports_follow_symlinks
    config,          \* RestoreConfig, the flags of the restore pass
    doc,             \* what the input file holds: see DocKinds
    attrs,           \* the parsed snapshot: a function from its keys to records
    fs,              \* the live filesystem: path -> entry
    excl,            \* the paths the compiled exclusion rules match in restore
    pc,              \* position: restore "start", "apply", "exited"; save "save",
                     \* "walk", "collect", "saved"; comparisons "compare", "diff", "diffed"
    idx,             \* position of the loop of apply_file_attrs in sorted(attrs)
    processed,       \* apply_file_attrs.processed
    errored,         \* apply_file_attrs.errored
    calls,           \* every OS mutation call issued so far, in order
    outcome,         \* path -> how its iteration of the loop ended
    printed_nothing, \* "Nothing to change." has been printed
    exit_code,       \* the process exit status (NotExited while running)
    uncaught,        \* the exception that ended the process, or "none"
    origin,          \* "given": attrs came from the file; "captured": from get_attrs
    pass_no,         \* how many times restore has been started on the snapshot
    ts1, ts2, ts_res, \* operands and result of a timestamp_changed call
    diff,             \* the ResultAttr of a get_attr_for_restore call (<<>>: none)
    rules,            \* save: compile_ignore_rules returned a PathSpec (not None)
    matched,          \* save: the items whose path the PathSpec matches
    save_skip_links,  \* SaveConfig.skip_links
    birthtime_ns,     \* os.stat_result has the attribute st_birthtime_ns
    matched_items,           \* get_paths.matched_items
    alternative_items_list,  \* get_paths.alternative_items_list
    interrupt,               \* the KeyboardInterrupt that ended a save: see NoInterrupt
    consecutive_errors,      \* collect_file_attrs.consecutive_errors
    attr_reads               \* the get_attrs calls of collect_file_attrs so far, in
                             \* order: [item, ok], ok = FALSE when the call raised

restoreVars == <<platform, utime_nofollow, config, doc, attrs, fs, excl, pc, idx,
                 processed, errored, calls, outcome, printed_nothing, exit_code,
                 uncaught, origin, pass_no>>
cmpVars == <<ts1, ts2, ts_res, diff>>
saveVars == <<rules, matched, save_skip_links, birthtime_ns, matched_items,
              alternative_items_list, interrupt, consecutive_errors, attr_reads>>
vars == <<restoreVars, cmpVars, saveVars>>

----------------------------------------------------------------------------
\* ERROR CODES
SUCCESS == 0
USER_INTERRUPTED == 1
GENERIC_ERROR == 2
FILE_RELATED == 3
ATTRIB_FILE_RELATED == 10

\* The tolerance of the Windows timestamp comparison.
WIN_TOLERANCE == 300

\* set_times writes FILETIME values: units of 100 ns.
FILETIME_UNIT == 100

\* Nanoseconds per unit of a float timestamp of the model.
FloatTick == 256

\* Bounds of the model.
MaxPaths == 2
\* The items of the tree a save walks are 1..MaxNodes.
MaxNodes == 6

NotExited == 0 - 1
NoTime == [t |-> "none", v |-> 0]

Abs(x) == IF x < 0 THEN 0 - x ELSE x
Range(q) == {q[i] : i \in DOMAIN q}

Int_(n) == [t |-> "int", v |-> n]
Float_(n) == [t |-> "float", v |-> n]

----------------------------------------------------------------------------
\* Paths.  A path p of 1..MaxPaths has the name PathName(p); sorted() orders
\* the keys of the snapshot by name, as Python orders strings.
Paths == 1..MaxPaths

PathName(p) == IF p % 2 = 0 THEN <<1, p>> ELSE <<2, p>>

RECURSIVE LexLess(_, _)
LexLess(s, t) ==
    IF s = <<>> THEN t # <<>>
    ELSE IF t = <<>> THEN FALSE
    ELSE IF Head(s) # Head(t) THEN Head(s) < Head(t)
    ELSE LexLess(Tail(s), Tail(t))

RECURSIVE SortedSeq(_)
SortedSeq(S) ==
    IF S = {} THEN <<>>
    ELSE LET m == CHOOSE x \in S : \A y \in S \ {x} : LexLess(PathName(x), PathName(y))
         IN <<m>> \o SortedSeq(S \ {m})

\* Mutant: `for item_path in attrs`, the keys in the order of the document
\* (which lists path 1 before path 2).
SortedKeys_document(a) ==
    [i \in 1..Cardinality(DOMAIN a) |->
        CHOOSE x \in DOMAIN a : Cardinality({y \in DOMAIN a : y < x}) = i - 1]

\* sorted(attrs)
SortedKeys(a) == SortedSeq(DOMAIN a)

----------------------------------------------------------------------------
\* timestamp_changed and the float conversions around it.

\* timestamp *= 1_000_000_000 for a float, nothing for an int.
ToNs(ts) == IF ts.t = "float" THEN ts.v * FloatTick ELSE ts.v

\* st_mtime / st_atime / st_ctime: the float seconds of a nanosecond value.
StatFloat(ns) == Float_(ns \div FloatTick)

\* Mutant: the tolerance band excludes its bound.
timestamp_changed_ge(timestamp_1, timestamp_2, plat) ==
    IF plat = "windows"
    THEN Abs(ToNs(timestamp_1) - ToNs(timestamp_2)) >= WIN_TOLERANCE
    ELSE ToNs(timestamp_1) # ToNs(timestamp_2)

timestamp_changed(timestamp_1, timestamp_2, plat) ==
    IF plat = "windows"
    THEN Abs(ToNs(timestamp_1) - ToNs(timestamp_2)) > WIN_TOLERANCE
    ELSE ToNs(timestamp_1) # ToNs(timestamp_2)

----------------------------------------------------------------------------
\* Stored records.  A record of the snapshot document is
\*   [has, atime, mtime, ctime, mode, uid, gid, archive, hidden, readonly, system]
\* where `has` is the set of keys present with a value of the declared type
\* (strict validation rejects any other value as it rejects a missing key).
TimeFields == {"atime", "mtime", "ctime"}
PosixFields == {"mode", "uid", "gid"}
WinFields == {"archive", "hidden", "readonly", "system"}

\* AttrData / WinAttrData / OldWinAttrData .model_validate(record, strict=True):
\* every declared field is required, undeclared keys are ignored.
ValidAttrData(rec) == (TimeFields \cup PosixFields) \subseteq rec.has
\* Mutant: WinAttrData with `archive: bool = False`, a flag that may be missing.
ValidWinAttrData_optionalArchive(rec) ==
    (TimeFields \cup (WinFields \ {"archive"})) \subseteq rec.has
ValidWinAttrData(rec) == (TimeFields \cup WinFields) \subseteq rec.has
ValidOldWinAttrData(rec) == (TimeFields \cup PosixFields \cup WinFields) \subseteq rec.has

\* The nested try/except of apply_file_attrs: the class of `attr`, or "corrupt".
model_validate(rec) ==
    IF ValidAttrData(rec) THEN "AttrData"
    ELSE IF ValidWinAttrData(rec) THEN "WinAttrData"
    ELSE IF ValidOldWinAttrData(rec) THEN "OldWinAttrData"
    ELSE "corrupt"

\* The live value read for a stored timestamp: the *_ns attribute when the
\* stored mtime is an int, the float attribute otherwise.
LiveStat(ns, stored_mtime) ==
    IF stored_mtime.t = "int" THEN Int_(ns) ELSE StatFloat(ns)

\* ResultAttr as get_attr_for_restore returns it.  ctime = NoTime, has_posix =
\* FALSE and has_win = FALSE stand for the None defaults of the class.
get_attr_for_restore(shape, rec, live, skip_creation, plat) ==
    LET win == plat = "windows"
        ctime == IF win THEN rec.ctime ELSE NoTime
        takes_win == win /\ shape # "AttrData"
        takes_posix == ~win /\ shape \in {"AttrData", "OldWinAttrData"}
    IN  [ atime |-> rec.atime,
          mtime |-> rec.mtime,
          ctime |-> ctime,
          atime_changed |-> timestamp_changed(LiveStat(live.atime, rec.mtime), rec.atime, plat),
          mtime_changed |-> timestamp_changed(LiveStat(live.mtime, rec.mtime), rec.mtime, plat),
          ctime_changed |-> /\ win
                            /\ ~skip_creation
                            /\ rec.ctime.v > 0
                            /\ timestamp_changed(LiveStat(live.birth, rec.mtime), rec.ctime, plat),
          has_win |-> takes_win,
          archive |-> takes_win /\ rec.archive,
          hidden |-> takes_win /\ rec.hidden,
          readonly |-> takes_win /\ rec.readonly,
          system |-> takes_win /\ rec.system,
          archive_changed |-> takes_win /\ ("archive" \in live.fattr) # rec.archive,
          hidden_changed |-> takes_win /\ ("hidden" \in live.fattr) # rec.hidden,
          readonly_changed |-> takes_win /\ ("readonly" \in live.fattr) # rec.readonly,
          system_changed |-> takes_win /\ ("system" \in live.fattr) # rec.system,
          has_posix |-> takes_posix,
          mode |-> IF takes_posix THEN rec.mode ELSE 0,
          uid |-> IF takes_posix THEN rec.uid ELSE 0,
          gid |-> IF takes_posix THEN rec.gid ELSE 0,
          mode_changed |-> takes_posix /\ live.mode # rec.mode,
          uid_changed |-> takes_posix /\ live.uid # rec.uid,
          gid_changed |-> takes_posix /\ live.gid # rec.gid ]

\* get_attrs: the record captured for a live entry.
get_attrs(live, plat) ==
    IF plat = "windows"
    THEN [ has |-> TimeFields \cup WinFields,
           atime |-> Int_(live.atime), mtime |-> Int_(live.mtime), ctime |-> Int_(live.birth),
           mode |-> 0, uid |-> 0, gid |-> 0,
           archive |-> "archive" \in live.fattr, hidden |-> "hidden" \in live.fattr,
           readonly |-> "readonly" \in live.fattr, system |-> "system" \in live.fattr ]
    ELSE [ has |-> TimeFields \cup PosixFields,
           atime |-> Int_(live.atime), mtime |-> Int_(live.mtime), ctime |-> Int_(live.birth),
           mode |-> live.mode, uid |-> live.uid, gid |-> live.gid,
           archive |-> FALSE, hidden |-> FALSE, readonly |-> FALSE, system |-> FALSE ]

----------------------------------------------------------------------------
\* The writers.  Each takes and returns a run record
\*   [live, sd, calls, processed, errs, exc]
\* live: the entry of the path; sd: stored_data (set_timestamps assigns to it);
\* calls: the OS mutation calls issued for the path so far; processed: a writer
\* has returned True; errs: the paths process_win_attributes appended to
\* errored; exc: the exception propagating ("none" when there is none).

\* OS calls whose outcome the environment decides.
OsCalls == {"chown", "chmod", "getattr", "setattr", "set_times", "utime"}

\* The failures one iteration of the restore loop is run against: none, one
\* call, or set_times (whose error is swallowed) together with a later utime.
\* "lchmod" stands for a platform without a chmod that leaves links unfollowed
\* (Linux): os.chmod(link, follow_symlinks=False) raises NotImplementedError.
FailChoices ==
    {{}} \cup {{c} : c \in OsCalls} \cup {{"set_times", "utime"}} \cup {{"lchmod"}}

\* st_mode holds the file type above the permission bits; chmod writes the
\* permission bits only.
ModeBits == 8
S_IMODE(mode) == mode % ModeBits
S_IFMT(mode) == mode - (mode % ModeBits)

Call(op, path, nofollow, ok, arg) ==
    [op |-> op, path |-> path, nofollow |-> nofollow, ok |-> ok, arg |-> arg]

Raise(r, e) == [r EXCEPT !.exc = e]

set_uid_gid(r, item_path, skip_owner, nofollow, fails) ==
    IF r.exc # "none" \/ skip_owner THEN r
    ELSE IF r.sd.uid_changed \/ r.sd.gid_changed
    THEN LET ok == "chown" \notin fails
             c == Call("chown", item_path, nofollow, ok, <<r.sd.uid, r.sd.gid>>)
         IN  IF ok
             THEN [r EXCEPT !.calls = Append(@, c),
                            !.live.uid = r.sd.uid, !.live.gid = r.sd.gid,
                            !.processed = TRUE]
             ELSE Raise([r EXCEPT !.calls = Append(@, c)], "OSError")
    ELSE r

\* Mutant: os.chmod called without **optional_arg, so that it follows links.
set_permissions_follow(r, item_path, skip_permissions, nofollow, fails) ==
    IF r.exc # "none" \/ skip_permissions THEN r
    ELSE IF r.sd.mode_changed
    THEN LET ok == "chmod" \notin fails
             c == Call("chmod", item_path, FALSE, ok, <<r.sd.mode>>)
         IN  IF ok
             THEN [r EXCEPT !.calls = Append(@, c),
                            !.live.mode = S_IFMT(@) + S_IMODE(r.sd.mode),
                            !.processed = TRUE]
             ELSE Raise([r EXCEPT !.calls = Append(@, c)], "OSError")
    ELSE r

set_permissions(r, item_path, skip_permissions, nofollow, fails) ==
    IF r.exc # "none" \/ skip_permissions THEN r
    ELSE IF r.sd.mode_changed
    THEN LET ok == "chmod" \notin fails
             c == Call("chmod", item_path, nofollow, ok, <<r.sd.mode>>)
         IN  IF nofollow /\ r.live.kind = "link" /\ "lchmod" \in fails
             THEN Raise(r, "NotImplementedError")
             ELSE IF ok
             THEN [r EXCEPT !.calls = Append(@, c),
                            !.live.mode = S_IFMT(@) + S_IMODE(r.sd.mode),
                            !.processed = TRUE]
             ELSE Raise([r EXCEPT !.calls = Append(@, c)], "OSError")
    ELSE r

\* What `except ctypes.WinError as e:` does with the OSError that reaches it:
\* ctypes.WinError is a function, not an exception class, so matching against
\* it raises TypeError instead of entering the handler.
except_WinError == "TypeError"

\* Mutant: the mask written is attribs_to_set alone, without the attributes
\* read from the entry.
modify_win_attribs_overwrite(live, path, attribs_to_set, attribs_to_unset, fails) ==
    IF "getattr" \in fails
    THEN [ret |-> FALSE, live |-> live, calls |-> <<>>,
          exc |-> IF except_WinError = "caught" THEN "none" ELSE except_WinError]
    ELSE LET win_attribs == attribs_to_set \ attribs_to_unset
             ok == "setattr" \notin fails
             c == Call("setattr", path, TRUE, ok, win_attribs)
         IN  IF ok
             THEN [ret |-> TRUE, live |-> [live EXCEPT !.fattr = win_attribs],
                   calls |-> <<c>>, exc |-> "none"]
             ELSE [ret |-> FALSE, live |-> live, calls |-> <<c>>,
                   exc |-> IF except_WinError = "caught" THEN "none" ELSE except_WinError]

\* modify_win_attribs: [ret, live, calls, exc].  ret is the returned bool.
modify_win_attribs(live, path, attribs_to_set, attribs_to_unset, fails) ==
    IF "getattr" \in fails
    THEN [ret |-> FALSE, live |-> live, calls |-> <<>>,
          exc |-> IF except_WinError = "caught" THEN "none" ELSE except_WinError]
    ELSE LET win_attribs == (live.fattr \cup attribs_to_set) \ attribs_to_unset
             ok == "setattr" \notin fails
             \* SetFileAttributesW acts on the entry named, a link included
             c == Call("setattr", path, TRUE, ok, win_attribs)
         IN  IF ok
             THEN [ret |-> TRUE, live |-> [live EXCEPT !.fattr = win_attribs],
                   calls |-> <<c>>, exc |-> "none"]
             ELSE [ret |-> FALSE, live |-> live, calls |-> <<c>>,
                   exc |-> IF except_WinError = "caught" THEN "none" ELSE except_WinError]

process_win_attributes(r, item_path, cfg, fails) ==
    IF r.exc # "none" THEN r
    ELSE
    LET sd == r.sd
        changed == {f \in WinFields :
                      \/ f = "archive" /\ sd.archive_changed /\ ~cfg.skip_archive
                      \/ f = "hidden" /\ sd.hidden_changed /\ ~cfg.skip_hidden
                      \/ f = "readonly" /\ sd.readonly_changed /\ ~cfg.skip_readonly
                      \/ f = "system" /\ sd.system_changed /\ ~cfg.skip_system}
        want == {f \in WinFields :
                      \/ f = "archive" /\ sd.archive
                      \/ f = "hidden" /\ sd.hidden
                      \/ f = "readonly" /\ sd.readonly
                      \/ f = "system" /\ sd.system}
        attribs_to_set == changed \cap want
        attribs_to_unset == changed \ want
    IN  IF changed # {}
        THEN LET m == modify_win_attribs(r.live, item_path, attribs_to_set,
                                         attribs_to_unset, fails)
             IN  IF m.exc # "none"
                 THEN Raise([r EXCEPT !.calls = @ \o m.calls], m.exc)
                 ELSE [r EXCEPT !.calls = @ \o m.calls,
                                !.live = m.live,
                                !.errs = IF m.ret THEN @ ELSE Append(@, item_path),
                                !.processed = TRUE]
        ELSE r

\* _convert_time: the nanosecond value of the FILETIME written for a timestamp.
convert_time(ts) == (ToNs(ts) \div FILETIME_UNIT) * FILETIME_UNIT

\* set_times: SetFileTime with the given times, None (NoTime) leaving one as it is.
set_times(live, ctime, mtime, atime) ==
    [live EXCEPT !.birth = IF ctime = NoTime THEN @ ELSE convert_time(ctime),
                 !.mtime = IF mtime = NoTime THEN @ ELSE convert_time(mtime),
                 !.atime = IF atime = NoTime THEN @ ELSE convert_time(atime)]

\* timestamp *= 1_000_000_000 of a value that is used as seconds.
NS_PER_SECOND == 1000000000

\* The nanoseconds os.utime writes for one element of its times=(a, m) tuple,
\* which it reads as seconds.
SecondsToNs(ts) == IF ts.t = "float" THEN ts.v * FloatTick ELSE ts.v * NS_PER_SECOND

\* os.utime(path, ns=(a, m)) when by_ns, os.utime(path, (a, m)) otherwise:
\* [live, exc].  ns= takes ints only; None is no number; follow_symlinks=False
\* is refused where os.utime does not support it; the OS writes in its own
\* resolution.
os_utime(live, a, m, by_ns, nofollow, fails, plat, supports_nofollow) ==
    LET unit == IF plat = "windows" THEN FILETIME_UNIT ELSE 1
        val(ts) == IF by_ns THEN ts.v ELSE SecondsToNs(ts)
        w(ts) == (val(ts) \div unit) * unit
    IN  IF a = NoTime \/ m = NoTime \/ (by_ns /\ (a.t # "int" \/ m.t # "int"))
        THEN [live |-> live, exc |-> "TypeError", issued |-> FALSE]
        ELSE IF nofollow /\ ~supports_nofollow
        THEN [live |-> live, exc |-> "NotImplementedError", issued |-> FALSE]
        ELSE IF "utime" \in fails
        THEN [live |-> live, exc |-> "OSError", issued |-> TRUE]
        ELSE [live |-> [live EXCEPT !.atime = w(a), !.mtime = w(m)],
              exc |-> "none", issued |-> TRUE]

set_timestamps(r, item_path, cfg, nofollow, fails, plat, supports_nofollow) ==
    IF r.exc # "none" THEN r
    ELSE IF cfg.skip_creation /\ cfg.skip_accessed /\ cfg.skip_modified THEN r
    ELSE
    LET sd == r.sd
        m_ch == sd.mtime_changed /\ ~cfg.skip_modified
        a_ch == sd.atime_changed /\ ~cfg.skip_accessed
        c_ch == sd.ctime_changed /\ ~cfg.skip_creation
        something_changed == m_ch \/ a_ch \/ c_ch
    IN  IF ~something_changed THEN r
        ELSE IF plat = "windows"
        THEN LET new_ctime == IF c_ch THEN sd.ctime ELSE NoTime
                 new_mtime == IF m_ch THEN sd.mtime ELSE NoTime
                 new_atime == IF a_ch THEN sd.atime ELSE NoTime
                 ok == "set_times" \notin fails
                 c == Call("set_times", item_path, nofollow, ok,
                           <<new_ctime, new_mtime, new_atime>>)
             IN  \* a WindowsError of set_times is caught and printed here
                 [r EXCEPT !.calls = Append(@, c),
                           !.live = IF ok THEN set_times(@, new_ctime, new_mtime, new_atime)
                                    ELSE @,
                           !.processed = TRUE]
        ELSE IF ~(cfg.skip_modified /\ cfg.skip_accessed)
                /\ (sd.mtime_changed \/ sd.atime_changed)
        THEN LET by_ns == sd.mtime.t = "int"
                 mtime == IF cfg.skip_modified THEN LiveStat(r.live.mtime, sd.mtime)
                          ELSE sd.mtime
                 atime == IF cfg.skip_accessed THEN LiveStat(r.live.atime, sd.mtime)
                          ELSE sd.atime
                 u == os_utime(r.live, atime, mtime, by_ns, nofollow, fails, plat,
                               supports_nofollow)
                 c == Call("utime", item_path, nofollow, u.exc = "none", <<atime, mtime>>)
                 r1 == [r EXCEPT !.sd.mtime = mtime, !.sd.atime = atime,
                                 !.calls = IF u.issued THEN Append(@, c) ELSE @,
                                 !.live = u.live]
             IN  IF u.exc # "none" THEN Raise(r1, u.exc)
                 ELSE [r1 EXCEPT !.processed = TRUE]
        ELSE [r EXCEPT !.processed = TRUE]

\* stored_data.ctime != stored_data.atime, on the values as stored (an int of
\* nanoseconds and a float of seconds are equal only when both are zero).
RawDiffers(x, y) ==
    IF x = NoTime \/ y = NoTime THEN x # y
    ELSE IF x.t = y.t THEN x.v # y.v
    ELSE ~(x.v = 0 /\ y.v = 0)

copy_creation_to_accessed(r, item_path, copy_to_access, nofollow, fails, plat, supports) ==
    IF r.exc # "none" THEN r
    ELSE IF copy_to_access /\ RawDiffers(r.sd.ctime, r.sd.atime)
    THEN LET by_ns == r.sd.mtime.t = "int"
             u == os_utime(r.live, r.sd.ctime, r.sd.mtime, by_ns, nofollow, fails,
                           plat, supports)
             c == Call("utime", item_path, nofollow, u.exc = "none",
                       <<r.sd.ctime, r.sd.mtime>>)
             r1 == [r EXCEPT !.calls = IF u.issued THEN Append(@, c) ELSE @,
                             !.live = u.live]
         IN  IF u.exc # "none" THEN Raise(r1, u.exc)
             ELSE [r1 EXCEPT !.processed = TRUE]
    ELSE r

----------------------------------------------------------------------------
\* One iteration of the loop of apply_file_attrs, for the key item_path with
\* record rec and live entry `live`:
\*   [outcome, live, calls, processed, errs, exc]
\* outcome: "notfound", "corrupt", "excluded", "symlink" (skipped link),
\* "applied" (the writers ran), "oserror" (an OSError reached the handler of the
\* loop), "crash" (another exception left the loop).
Skipped(kind, live) ==
    [outcome |-> kind, live |-> live, calls |-> <<>>, processed |-> FALSE,
     errs |-> <<>>, exc |-> "none"]

\* Mutant: set_permissions is called before set_uid_gid.
apply_item_permissions_first(item_path, rec, live, cfg, excluded, fails, plat, supports_nofollow) ==
    LET symlink_support == supports_nofollow \/ plat = "windows"
        nofollow == symlink_support
        shape == model_validate(rec)
    IN  IF live.kind = "absent" THEN Skipped("notfound", live)
        ELSE IF shape = "corrupt" THEN Skipped("corrupt", live)
        ELSE IF excluded THEN Skipped("excluded", live)
        ELSE IF live.kind = "link" /\ ~(symlink_support /\ ~cfg.skip_links)
        THEN Skipped("symlink", live)
        ELSE
        LET sd == get_attr_for_restore(shape, rec, live, cfg.skip_creation, plat)
            r0 == [live |-> live, sd |-> sd, calls |-> <<>>, processed |-> FALSE,
                   errs |-> <<>>, exc |-> "none"]
            r1 == IF plat # "windows"
                  THEN set_uid_gid(
                           set_permissions(r0, item_path, cfg.skip_permissions, nofollow,
                                           fails),
                           item_path, cfg.skip_owner, nofollow, fails)
                  ELSE IF sd.has_win
                  THEN process_win_attributes(r0, item_path, cfg, fails)
                  ELSE r0
            r2 == set_timestamps(r1, item_path, cfg, nofollow, fails, plat,
                                 supports_nofollow)
            r3 == copy_creation_to_accessed(r2, item_path, cfg.copy_to_access, nofollow,
                                            fails, plat, supports_nofollow)
        IN  [outcome |-> IF r3.exc = "none" THEN "applied"
                         ELSE IF r3.exc = "OSError" THEN "oserror" ELSE "crash",
             live |-> r3.live, calls |-> r3.calls, processed |-> r3.processed,
             errs |-> IF r3.exc = "OSError" THEN Append(r3.errs, item_path) ELSE r3.errs,
             exc |-> r3.exc]

apply_item(item_path, rec, live, cfg, excluded, fails, plat, supports_nofollow) ==
    LET symlink_support == supports_nofollow \/ plat = "windows"
        nofollow == symlink_support
        shape == model_validate(rec)
    IN  IF live.kind = "absent" THEN Skipped("notfound", live)
        ELSE IF shape = "corrupt" THEN Skipped("corrupt", live)
        ELSE IF excluded THEN Skipped("excluded", live)
        ELSE IF live.kind = "link" /\ ~(symlink_support /\ ~cfg.skip_links)
        THEN Skipped("symlink", live)
        ELSE
        LET sd == get_attr_for_restore(shape, rec, live, cfg.skip_creation, plat)
            r0 == [live |-> live, sd |-> sd, calls |-> <<>>, processed |-> FALSE,
                   errs |-> <<>>, exc |-> "none"]
            r1 == IF plat # "windows"
                  THEN set_permissions(
                           set_uid_gid(r0, item_path, cfg.skip_owner, nofollow, fails),
                           item_path, cfg.skip_permissions, nofollow, fails)
                  ELSE IF sd.has_win
                  THEN process_win_attributes(r0, item_path, cfg, fails)
                  ELSE r0
            r2 == set_timestamps(r1, item_path, cfg, nofollow, fails, plat,
                                 supports_nofollow)
            r3 == copy_creation_to_accessed(r2, item_path, cfg.copy_to_access, nofollow,
                                            fails, plat, supports_nofollow)
        IN  [outcome |-> IF r3.exc = "none" THEN "applied"
                         ELSE IF r3.exc = "OSError" THEN "oserror" ELSE "crash",
             live |-> r3.live, calls |-> r3.calls, processed |-> r3.processed,
             errs |-> IF r3.exc = "OSError" THEN Append(r3.errs, item_path) ELSE r3.errs,
             exc |-> r3.exc]

----------------------------------------------------------------------------
\* The restore pass.

DocKinds == {"missing", "directory", "zero_size", "unparseable", "mapping"}

Exit(code, exc) ==
    /\ pc' = "exited"
    /\ exit_code' = code
    /\ uncaught' = exc

\* restore_attrs up to the call of apply_file_attrs.
RestoreStart ==
    /\ pc \in {"start", "saved"}
    /\ IF doc \in {"missing", "directory", "zero_size"}
       THEN Exit(FILE_RELATED, "none")
       ELSE IF doc = "unparseable"
       THEN Exit(1, "JSONDecodeError")
       ELSE IF DOMAIN attrs = {}
       THEN Exit(FILE_RELATED, "none")
       ELSE /\ pc' = "apply"
            /\ UNCHANGED <<exit_code, uncaught>>
    /\ UNCHANGED <<platform, utime_nofollow, config, doc, attrs, fs, excl, idx,
                   processed, errored, calls, outcome, printed_nothing, origin>>
    /\ UNCHANGED cmpVars
    /\ UNCHANGED pass_no
    /\ UNCHANGED saveVars

\* One iteration of `for item_path in sorted(attrs)`.
RestoreItem ==
    /\ pc = "apply"
    /\ idx <= Len(SortedKeys(attrs))
    /\ \E fails \in FailChoices :
         \E item_path \in {SortedKeys(attrs)[idx]} :
         \E res \in {apply_item(item_path, attrs[item_path], fs[item_path], config,
                                item_path \in excl, fails, platform, utime_nofollow)} :
             /\ fs' = [fs EXCEPT ![item_path] = res.live]
             /\ calls' = calls \o res.calls
             /\ errored' = errored \o res.errs
             /\ processed' = (processed \/ res.processed)
             /\ outcome' = [outcome EXCEPT ![item_path] = res.outcome]
             /\ IF res.outcome = "corrupt"
                THEN Exit(ATTRIB_FILE_RELATED, "none") /\ idx' = idx
                ELSE IF res.outcome = "crash"
                THEN Exit(1, res.exc) /\ idx' = idx
                ELSE /\ idx' = idx + 1
                     /\ UNCHANGED <<pc, exit_code, uncaught>>
    /\ UNCHANGED <<platform, utime_nofollow, config, doc, attrs, excl,
                   printed_nothing, origin>>
    /\ UNCHANGED cmpVars
    /\ UNCHANGED pass_no
    /\ UNCHANGED saveVars

\* The summary of apply_file_attrs after the loop.
RestoreFinish ==
    /\ pc = "apply"
    /\ idx > Len(SortedKeys(attrs))
    /\ IF Len(errored) # 0
       THEN Exit(GENERIC_ERROR, "none") /\ UNCHANGED printed_nothing
       ELSE Exit(SUCCESS, "none") /\ printed_nothing' = ~processed
    /\ UNCHANGED <<platform, utime_nofollow, config, doc, attrs, fs, excl, idx,
                   processed, errored, calls, outcome, origin>>
    /\ UNCHANGED cmpVars
    /\ UNCHANGED pass_no
    /\ UNCHANGED saveVars

----------------------------------------------------------------------------
\* save: the walk of get_paths and the capture of collect_file_attrs.
\* The items of the tree are numbered; 0 is the working path, the parent of
\* item n is Parent(n).  An entry of kind "dir" is a directory, "link" a
\* symbolic link or junction.

Parent(n) == (n - 1) \div 2

\* interrupt.where: "none", or where the KeyboardInterrupt was raised: "body",
\* inside the try of the loop of collect_file_attrs, or "for", at the for
\* statement itself; interrupt.at: the records file_attrs held by then.
NoInterrupt == [at |-> 0, where |-> "none"]

RECURSIVE IsDescendant(_, _)
IsDescendant(n, p) ==
    IF n = 0 THEN FALSE
    ELSE Parent(n) = p \/ IsDescendant(Parent(n), p)

RECURSIVE AscSeq(_)
AscSeq(S) ==
    IF S = {} THEN <<>>
    ELSE LET m == CHOOSE x \in S : \A y \in S : x <= y
         IN <<m>> \o AscSeq(S \ {m})

\* os.scandir: the entries of a directory.
scandir(tree, path_to_scan) ==
    AscSeq({n \in DOMAIN tree : Parent(n) = path_to_scan /\ tree[n].kind # "absent"})

get_path_content(tree, path_to_scan, skip_links) ==
    LET Keep(item) == tree[item].kind # "link"
    IN IF skip_links
       THEN SelectSeq(scandir(tree, path_to_scan), Keep)
       ELSE scandir(tree, path_to_scan)

\* Mutant: a matched directory is kept.
get_non_excluded_items_keepdirs(tree, path_to_scan, exclusion_rules, skip_links) ==
    LET Keep(item) ==
            /\ ~(skip_links /\ tree[item].kind = "link")
            /\ (item \notin exclusion_rules \/ tree[item].kind = "dir")
    IN SelectSeq(get_path_content(tree, path_to_scan, FALSE), Keep)

\* exclusion_rules: the items for which match_file is true of the path the
\* code builds (lowered with exclusions_ignore_case, ending in os.path.sep for
\* a directory).
get_non_excluded_items(tree, path_to_scan, exclusion_rules, skip_links) ==
    LET Keep(item) ==
            /\ ~(skip_links /\ tree[item].kind = "link")
            /\ item \notin exclusion_rules
    IN SelectSeq(get_path_content(tree, path_to_scan, FALSE), Keep)

\* What get_paths lists of one directory.
ListOf(tree, path_to_scan, has_rules, exclusion_rules, skip_links) ==
    IF has_rules
    THEN get_non_excluded_items(tree, path_to_scan, exclusion_rules, skip_links)
    ELSE get_path_content(tree, path_to_scan, skip_links)

\* The for loop of get_paths: temp_items_list of one level.
\* Mutant: the test is item.is_dir() alone, which is true of a link to a
\* directory.
RECURSIVE temp_items_list_follow(_, _, _, _, _)
temp_items_list_follow(tree, items, has_rules, exclusion_rules, skip_links) ==
    IF items = <<>> THEN <<>>
    ELSE (IF tree[Head(items)].kind \in {"dir", "link"}
          THEN ListOf(tree, Head(items), has_rules, exclusion_rules, skip_links)
          ELSE <<>>)
         \o temp_items_list_follow(tree, Tail(items), has_rules, exclusion_rules, skip_links)

RECURSIVE temp_items_list(_, _, _, _, _)
temp_items_list(tree, items, has_rules, exclusion_rules, skip_links) ==
    IF items = <<>> THEN <<>>
    ELSE (IF tree[Head(items)].kind = "dir"
          THEN ListOf(tree, Head(items), has_rules, exclusion_rules, skip_links)
          ELSE <<>>)
         \o temp_items_list(tree, Tail(items), has_rules, exclusion_rules, skip_links)

\* get_paths up to its while loop.
WalkStart ==
    /\ pc = "save"
    /\ alternative_items_list' = ListOf(fs, 0, rules, matched, save_skip_links)
    /\ matched_items' = alternative_items_list'
    /\ pc' = "walk"
    /\ UNCHANGED <<platform, utime_nofollow, config, doc, attrs, fs, excl, idx,
                   processed, errored, calls, outcome, printed_nothing, exit_code,
                   uncaught, origin>>
    /\ UNCHANGED <<rules, matched, save_skip_links, birthtime_ns, interrupt,
                   consecutive_errors, attr_reads>>
    /\ UNCHANGED cmpVars
    /\ UNCHANGED pass_no

\* One iteration of the while loop of get_paths.
WalkLevel ==
    /\ pc = "walk"
    /\ \E temp \in {temp_items_list(fs, alternative_items_list, rules, matched,
                                    save_skip_links)} :
         IF Len(temp) = 0
         THEN /\ pc' = "collect"
              /\ UNCHANGED <<matched_items, alternative_items_list>>
         ELSE /\ matched_items' = matched_items \o temp
              /\ alternative_items_list' = temp
              /\ UNCHANGED pc
    /\ UNCHANGED <<platform, utime_nofollow, config, doc, attrs, fs, excl, idx,
                   processed, errored, calls, outcome, printed_nothing, exit_code,
                   uncaught, origin>>
    /\ UNCHANGED <<rules, matched, save_skip_links, birthtime_ns, interrupt,
                   consecutive_errors, attr_reads>>
    /\ UNCHANGED cmpVars
    /\ UNCHANGED pass_no

\* The loop of collect_file_attrs and write_attr_file.  get_attrs reads
\* st_birthtime_ns: where the stat result has no such attribute it raises
\* AttributeError for every item, which the loop prints and passes over.
Collect ==
    /\ pc = "collect"
    /\ attrs' = [n \in {i \in Range(matched_items) : birthtime_ns} |->
                    get_attrs(fs[n], platform)]
    /\ attr_reads' = [i \in 1..Len(matched_items) |->
                          [item |-> matched_items[i], ok |-> birthtime_ns]]
    /\ consecutive_errors' = IF ~birthtime_ns /\ Len(matched_items) > 0 THEN 1 ELSE 0
    /\ doc' = "mapping"
    /\ origin' = "captured"
    /\ pc' = "saved"
    /\ UNCHANGED <<platform, utime_nofollow, config, fs, excl, idx,
                   processed, errored, calls, outcome, printed_nothing, exit_code,
                   uncaught>>
    /\ UNCHANGED <<rules, matched, save_skip_links, birthtime_ns, matched_items,
                   alternative_items_list, interrupt>>
    /\ UNCHANGED cmpVars
    /\ UNCHANGED pass_no

NextSave == WalkStart \/ WalkLevel \/ Collect

\* collect_file_attrs ended by a KeyboardInterrupt, and the handler of
\* __main__.  The interpreter raises it at the instruction it is executing:
\* inside the try of an iteration, whose handler writes file_attrs and
\* re-raises, or at the for statement, outside every try of the function.
CollectInterrupted ==
    /\ pc = "collect"
    /\ Len(matched_items) > 0
    /\ \E n \in 0..Len(matched_items) : \E where \in {"body", "for"} :
         /\ interrupt' = [at |-> n, where |-> where]
         /\ attr_reads' = [i \in 1..n |-> [item |-> matched_items[i], ok |-> TRUE]]
         /\ IF where = "body"
            THEN /\ attrs' = [k \in {matched_items[i] : i \in 1..n} |->
                                 get_attrs(fs[k], platform)]
                 /\ doc' = "mapping"
                 /\ origin' = "captured"
            ELSE UNCHANGED <<attrs, doc, origin>>
    /\ consecutive_errors' = 0
    /\ Exit(USER_INTERRUPTED, "none")
    /\ UNCHANGED <<platform, utime_nofollow, config, fs, excl, idx,
                   processed, errored, calls, outcome, printed_nothing>>
    /\ UNCHANGED <<rules, matched, save_skip_links, birthtime_ns, matched_items,
                   alternative_items_list>>
    /\ UNCHANGED cmpVars
    /\ UNCHANGED pass_no

NextCapture == NextSave \/ CollectInterrupted

----------------------------------------------------------------------------
\* Initial states.

FlagNames == {"copy_to_access", "skip_permissions", "skip_owner", "skip_archive",
              "skip_hidden", "skip_readonly", "skip_system", "skip_modified",
              "skip_creation", "skip_accessed", "skip_links"}

ConfigOf(S) ==
    [copy_to_access |-> "copy_to_access" \in S,
     skip_permissions |-> "skip_permissions" \in S,
     skip_owner |-> "skip_owner" \in S,
     skip_archive |-> "skip_archive" \in S,
     skip_hidden |-> "skip_hidden" \in S,
     skip_readonly |-> "skip_readonly" \in S,
     skip_system |-> "skip_system" \in S,
     skip_modified |-> "skip_modified" \in S,
     skip_creation |-> "skip_creation" \in S,
     skip_accessed |-> "skip_accessed" \in S,
     skip_links |-> "skip_links" \in S]

\* A live entry of the given kind; the values are in the resolution of the
\* platform (Windows keeps times in units of 100 ns).
Entry(kind, atime, mtime, birth, mode, owner, fattr) ==
    [kind |-> kind, atime |-> atime, mtime |-> mtime, birth |-> birth,
     mode |-> mode, uid |-> owner, gid |-> owner, fattr |-> fattr]

BaseEntry(kind) == Entry(kind, 1000, 2000, 3000, 6, 1, {"archive", "other"})

\* A stored record with the given keys, timestamps, mode, owner and flags.
Rec(has, atime, mtime, ctime, mode, owner, flags) ==
    [has |-> has, atime |-> atime, mtime |-> mtime, ctime |-> ctime,
     mode |-> mode, uid |-> owner, gid |-> owner,
     archive |-> "archive" \in flags, hidden |-> "hidden" \in flags,
     readonly |-> "readonly" \in flags, system |-> "system" \in flags]

AllFields == TimeFields \cup PosixFields \cup WinFields

\* Records of every shape, equal to BaseEntry or differing from it.
SampleRecs ==
    { Rec(TimeFields \cup PosixFields, Int_(1000), Int_(2000), Int_(3000), 6, 1, {}),
      Rec(TimeFields \cup PosixFields, Int_(1000), Int_(2400), Int_(3000), 4, 1, {}),
      Rec(TimeFields \cup WinFields, Int_(1000), Int_(2000), Int_(3000), 0, 0, {"archive"}),
      Rec(TimeFields \cup WinFields, Int_(1000), Int_(2400), Int_(3000), 0, 0, {"hidden"}),
      Rec(AllFields, Int_(1400), Int_(2000), Int_(3000), 4, 2, {"archive", "system"}),
      Rec(TimeFields \cup {"mode", "archive"}, Int_(1000), Int_(2000), Int_(3000), 6, 1, {}) }

InitPass ==
    /\ pass_no = 1
    /\ idx = 1
    /\ processed = FALSE
    /\ errored = <<>>
    /\ calls = <<>>
    /\ outcome = [p \in Paths |-> "pending"]
    /\ printed_nothing = FALSE
    /\ exit_code = NotExited
    /\ uncaught = "none"

\* No timestamp_changed or get_attr_for_restore call is under study.
InitNoCmp ==
    /\ ts1 = NoTime /\ ts2 = NoTime /\ ts_res = FALSE
    /\ diff = <<>>

\* No save is under study.
InitNoSave ==
    /\ rules = FALSE /\ matched = {} /\ save_skip_links = FALSE
    /\ birthtime_ns = TRUE
    /\ matched_items = <<>> /\ alternative_items_list = <<>>
    /\ interrupt = NoInterrupt
    /\ consecutive_errors = 0 /\ attr_reads = <<>>

InitRestore ==
    /\ platform \in {"linux", "windows"}
    /\ utime_nofollow \in BOOLEAN
    /\ config \in {ConfigOf(S) : S \in {{}, {"copy_to_access"}, {"skip_links"}}}
    /\ doc \in DocKinds
    /\ \E K \in SUBSET Paths : attrs \in [K -> SampleRecs]
    /\ doc # "mapping" => DOMAIN attrs = {}
    /\ fs \in [Paths -> {BaseEntry(k) : k \in {"absent", "file", "link"}}]
    /\ excl \in {{}, {1}}
    /\ origin = "given"
    /\ pc = "start"
    /\ InitPass
    /\ InitNoCmp
    /\ InitNoSave

NextRestore == RestoreStart \/ RestoreItem \/ RestoreFinish

\* restore started once more on the same snapshot, with the same flags, right
\* after a pass that ended with the success status: a new process, whose
\* apply_file_attrs starts from its initial values.
RestoreAgain ==
    /\ pc = "exited"
    /\ pass_no = 1
    /\ exit_code = SUCCESS /\ uncaught = "none"
    /\ pass_no' = 2
    /\ pc' = "start"
    /\ idx' = 1
    /\ processed' = FALSE
    /\ errored' = <<>>
    /\ calls' = <<>>
    /\ outcome' = [p \in Paths |-> "pending"]
    /\ printed_nothing' = FALSE
    /\ exit_code' = NotExited
    /\ UNCHANGED <<platform, utime_nofollow, config, doc, attrs, fs, excl, uncaught,
                   origin>>
    /\ UNCHANGED cmpVars
    /\ UNCHANGED saveVars

NextRepeat == NextRestore \/ RestoreAgain

Spec == InitRestore /\ [][NextRestore]_vars

----------------------------------------------------------------------------
\* Vocabulary of the properties of the restore pass.


\* The paths for which an OS mutation call was issued and failed.
FailedPaths == {c.path : c \in {d \in Range(calls) : ~d.ok}}

\* The paths for which an OS mutation call was issued.
CalledPaths == {c.path : c \in Range(calls)}

\* The loop of apply_file_attrs has been entered.
PassBegun == doc = "mapping" /\ DOMAIN attrs # {}

\* The process has ended after entering the loop.
PassEnded == pc = "exited" /\ PassBegun

CorruptKeys == {p \in DOMAIN attrs : model_validate(attrs[p]) = "corrupt"}

\* Every key is an existing path that the exclusion rules do not match, with a
\* record of an accepted shape.
AllKeysEligible ==
    /\ CorruptKeys = {}
    /\ \A p \in DOMAIN attrs : fs[p].kind # "absent" /\ p \notin excl

\* C3 (as claimed): when the pass has ended over existing, non-excluded paths
\* and an OS mutation call failed for some path, every path of the snapshot has
\* been visited and the error list holds exactly the paths whose call failed.
C3_ErrorIsolation ==
    (PassEnded /\ AllKeysEligible /\ ~config.copy_to_access /\ FailedPaths # {})
        => /\ \A p \in DOMAIN attrs : outcome[p] # "pending"
           /\ Range(errored) = FailedPaths

\* C4 (as claimed): the pass ends with the failure status exactly when an OS
\* mutation call failed, only after every path has been visited, and every
\* path whose call failed is in the error list.
C4_FailureStatusIffMutationFailed ==
    (PassEnded /\ AllKeysEligible /\ ~config.copy_to_access)
        => /\ (exit_code = GENERIC_ERROR) <=> (FailedPaths # {})
           /\ \A p \in DOMAIN attrs : outcome[p] # "pending"
           /\ FailedPaths \subseteq Range(errored)

\* C7 (as claimed): a snapshot holding a record of no accepted shape makes
\* restore end with the attribute-file status, wherever the record is.
C7_CorruptRecordAborts ==
    (PassEnded /\ CorruptKeys # {} /\ uncaught = "none")
        => exit_code = ATTRIB_FILE_RELATED

\* C8 (as claimed): a zero-size or empty snapshot ends restore before any path
\* is examined or mutated, with a status that is neither success nor the
\* status of path errors.
C8_EmptySnapshotFatal ==
    (pc = "exited" /\ (doc = "zero_size" \/ (doc = "mapping" /\ DOMAIN attrs = {})))
        => /\ calls = <<>>
           /\ \A p \in Paths : outcome[p] = "pending"
           /\ exit_code \notin {SUCCESS, FILE_RELATED}

----------------------------------------------------------------------------
\* Restore of one path over every combination of the timestamp flags.

\* A stored timestamp of type t for the live nanosecond value ns, moved by d
\* units of the type (d = 0: the value a capture of the live entry stores).
Stamp(t, ns, d) == IF t = "int" THEN Int_(ns + d) ELSE Float_((ns \div FloatTick) + d)

\* Records whose timestamps equal the live ones or differ from them by more
\* than the tolerance; the creation time may also be zero or the accessed time.
CtimeChoice(t, c) ==
    CASE c = "same" -> Stamp(t, 3000, 0)
      [] c = "moved" -> Stamp(t, 3000, 400)
      [] c = "zero" -> Stamp(t, 0, 0)
      [] c = "atime" -> Stamp(t, 1000, 0)

TimeRecs ==
    { Rec(has, Stamp(t, 1000, da), Stamp(t, 2000, dm), CtimeChoice(t, c), 6, 1, {"archive"}) :
        has \in {TimeFields \cup PosixFields, TimeFields \cup WinFields},
        t \in {"int", "float"},
        da \in {0, 400}, dm \in {0, 400},
        c \in {"same", "moved", "zero", "atime"} }

TimeFlags == {"skip_modified", "skip_accessed", "skip_creation", "copy_to_access"}

InitTimes ==
    /\ platform \in {"linux", "windows"}
    /\ utime_nofollow \in BOOLEAN
    /\ config \in {ConfigOf(S) : S \in SUBSET TimeFlags}
    /\ doc = "mapping"
    /\ attrs \in [{1} -> TimeRecs]
    /\ \E k \in {"file", "link"} :
         fs = [p \in Paths |-> IF p = 1 THEN BaseEntry(k) ELSE BaseEntry("absent")]
    /\ excl = {}
    /\ origin = "given"
    /\ pc = "start"
    /\ InitPass
    /\ InitNoCmp
    /\ InitNoSave

SpecTimes == InitTimes /\ [][NextRestore]_vars

\* A set_times call that names a creation time has been issued.
CreationWritten ==
    \E c \in Range(calls) : c.op = "set_times" /\ c.arg[1] # NoTime

\* C6 (as claimed): no step of restore changes a live modification time when
\* skip_modified is set, issues a creation-time write or changes a live
\* creation time when skip_creation is set, or changes a live accessed time
\* when skip_accessed is set and copy_to_access is not.
C6_SkipFlagsSuppress ==
    [][ /\ config.skip_modified => \A p \in Paths : fs'[p].mtime = fs[p].mtime
        /\ config.skip_creation =>
              /\ \A p \in Paths : fs'[p].birth = fs[p].birth
              /\ ~CreationWritten'
        /\ (config.skip_accessed /\ ~config.copy_to_access) =>
              \A p \in Paths : fs'[p].atime = fs[p].atime ]_vars

----------------------------------------------------------------------------
\* Restore of one path over every set of stored Windows flags, present or
\* missing, and every combination of the four flag switches.

WinFlagSwitches == {"skip_archive", "skip_hidden", "skip_readonly", "skip_system"}

FlagRecs ==
    { Rec(TimeFields \cup P \cup W, Int_(1000), Int_(2000), Int_(3000), 6, 1, flags) :
        P \in {{}, PosixFields}, W \in SUBSET WinFields, flags \in SUBSET WinFields }

InitFlags ==
    /\ platform \in {"linux", "windows"}
    /\ utime_nofollow = (platform = "linux")
    /\ config \in {ConfigOf(S) : S \in SUBSET WinFlagSwitches}
    /\ doc = "mapping"
    /\ attrs \in [{1} -> FlagRecs]
    /\ \E live \in {{"archive", "other"}, {"hidden", "readonly"}} :
         fs = [p \in Paths |-> IF p = 1 THEN Entry("file", 1000, 2000, 3000, 6, 1, live)
                               ELSE BaseEntry("absent")]
    /\ excl = {}
    /\ origin = "given"
    /\ pc = "start"
    /\ InitPass
    /\ InitNoCmp
    /\ InitNoSave

SpecFlags == InitFlags /\ [][NextRestore]_vars

\* The flag-mutation calls issued for path p.
FlagWrites(p) == {i \in DOMAIN calls : calls[i].op = "setattr" /\ calls[i].path = p}

\* C5: on a Windows restore no flag-mutation call is issued for a path whose
\* stored record lacks one of archive, hidden, readonly, system.
C5_UnknownFlagSafety ==
    platform = "windows" =>
        \A p \in DOMAIN attrs :
            ~(WinFields \subseteq attrs[p].has) => FlagWrites(p) = {}

\* C5 witness: a Windows pass has applied a record that lacks `archive` and
\* whose three other flags all differ from the live ones.
C5_Witness ==
    /\ platform = "windows"
    /\ pc = "exited"
    /\ outcome[1] = "applied"
    /\ attrs[1].has \cap WinFields = {"hidden", "readonly", "system"}
    /\ attrs[1].hidden /\ attrs[1].readonly /\ attrs[1].system
    /\ fs[1].fattr = {"archive", "other"}
    /\ config = ConfigOf({})
    /\ FlagWrites(1) = {}

----------------------------------------------------------------------------
\* timestamp_changed and get_attr_for_restore on their own: one comparison of
\* two timestamps, then the diff of one record against one live entry.

TsDomain ==
    {Int_(n) : n \in {700, 1000, 1250, 1300, 1301, 1400}}
        \cup {Float_(n) : n \in {3, 4, 5, 6}}

\* Records whose three timestamps are, each on its own, an int or a float,
\* equal to the live value in their unit or moved.
MixedRecs ==
    { Rec(has, Stamp(ta, 1000, da), Stamp(tm, 2000, dm), Stamp(tc, 3000, 0), 6, 1, {"archive"}) :
        has \in {TimeFields \cup PosixFields, TimeFields \cup WinFields},
        ta \in {"int", "float"}, tm \in {"int", "float"}, tc \in {"int", "float"},
        da \in {0, 400}, dm \in {0, 400} }

InitDiff ==
    /\ platform \in {"linux", "windows"}
    /\ utime_nofollow = (platform = "linux")
    /\ config = ConfigOf({})
    /\ doc = "mapping"
    /\ attrs \in [{1} -> MixedRecs]
    /\ fs = [p \in Paths |-> IF p = 1 THEN BaseEntry("file") ELSE BaseEntry("absent")]
    /\ excl = {}
    /\ origin = "given"
    /\ pc = "compare"
    /\ InitPass
    /\ ts1 \in TsDomain /\ ts2 \in TsDomain /\ ts_res = FALSE
    /\ diff = <<>>
    /\ InitNoSave

Compare ==
    /\ pc = "compare"
    /\ ts_res' = timestamp_changed(ts1, ts2, platform)
    /\ pc' = "diff"
    /\ UNCHANGED <<ts1, ts2, diff>>
    /\ UNCHANGED <<platform, utime_nofollow, config, doc, attrs, fs, excl, idx,
                   processed, errored, calls, outcome, printed_nothing, exit_code,
                   uncaught, origin>>
    /\ UNCHANGED saveVars
    /\ UNCHANGED pass_no

Diff ==
    /\ pc = "diff"
    /\ diff' = get_attr_for_restore(model_validate(attrs[1]), attrs[1], fs[1],
                                    config.skip_creation, platform)
    /\ pc' = "diffed"
    /\ UNCHANGED <<ts1, ts2, ts_res>>
    /\ UNCHANGED <<platform, utime_nofollow, config, doc, attrs, fs, excl, idx,
                   processed, errored, calls, outcome, printed_nothing, exit_code,
                   uncaught, origin>>
    /\ UNCHANGED saveVars
    /\ UNCHANGED pass_no

NextDiff == Compare \/ Diff

SpecDiff == InitDiff /\ [][NextDiff]_vars

\* The nanoseconds a timestamp stands for: a float counts FloatTick each.
Nanos(ts) == IF ts.t = "int" THEN ts.v ELSE FloatTick * ts.v

\* C9: after the comparison, on Windows the result is "changed" exactly when
\* the nanosecond values are more than 300 apart, on POSIX exactly when they
\* are not equal.
C9_TimestampEquality ==
    pc # "compare" =>
        (ts_res <=> IF platform = "windows"
                    THEN \/ Nanos(ts1) - Nanos(ts2) > 300
                         \/ Nanos(ts2) - Nanos(ts1) > 300
                    ELSE Nanos(ts1) # Nanos(ts2))

\* C9 witness: a Windows comparison of two values 250 apart gave "unchanged".
C9_Witness ==
    /\ pc # "compare"
    /\ platform = "windows"
    /\ ts1 = Int_(1000) /\ ts2 = Int_(1250)
    /\ ~ts_res

\* A stored timestamp holds the live value ns: an int the value itself, a
\* float the seconds float of it.
HoldsLive(ts, ns) == IF ts.t = "int" THEN ts.v = ns ELSE ts = StatFloat(ns)

\* C10 (as claimed): a stored timestamp that holds the live value is not judged
\* changed, whatever the types of the other timestamps of its record.
C10_UnitAutoDetection ==
    pc = "diffed" =>
        /\ HoldsLive(attrs[1].atime, fs[1].atime) => ~diff.atime_changed
        /\ HoldsLive(attrs[1].mtime, fs[1].mtime) => ~diff.mtime_changed
        /\ HoldsLive(attrs[1].ctime, fs[1].birth) => ~diff.ctime_changed

----------------------------------------------------------------------------
\* save on a tree, and save followed by restore.

EntryKinds == {"absent", "file", "dir", "link"}

\* Only a directory has entries.
WellFormed(tree) ==
    \A n \in DOMAIN tree :
        (Parent(n) # 0 /\ tree[Parent(n)].kind # "dir") => tree[n].kind = "absent"

InitSave ==
    /\ WellFormed(fs)
    /\ rules \in BOOLEAN
    /\ matched \in SUBSET {n \in DOMAIN fs : fs[n].kind # "absent"}
    /\ ~rules => matched = {}
    /\ save_skip_links \in BOOLEAN
    /\ matched_items = <<>> /\ alternative_items_list = <<>>
    /\ interrupt = NoInterrupt
    /\ consecutive_errors = 0 /\ attr_reads = <<>>
    /\ doc = "missing"
    /\ attrs = <<>>
    /\ origin = "given"
    /\ config = ConfigOf({})
    /\ excl = {}
    /\ pc = "save"
    /\ InitPass
    /\ InitNoCmp

InitWalk ==
    /\ platform \in {"linux", "windows"}
    /\ utime_nofollow = (platform = "linux")
    /\ birthtime_ns = TRUE
    /\ fs \in [1..MaxNodes -> {BaseEntry(k) : k \in EntryKinds}]
    /\ InitSave

SpecWalk == InitWalk /\ [][NextSave]_vars

\* The directories the rule set matches.
ExcludedDirs == {p \in DOMAIN fs : rules /\ fs[p].kind = "dir" /\ p \in matched}

UnderExcluded(n) == \E p \in ExcludedDirs : n = p \/ IsDescendant(n, p)

\* C2: neither a directory the rule set matches nor a descendant of it is
\* among the items get_paths has gathered, nor a key of the snapshot written.
C2_ExclusionMonotonicity ==
    /\ \A n \in Range(matched_items) : ~UnderExcluded(n)
    /\ origin = "captured" => \A k \in DOMAIN attrs : ~UnderExcluded(k)

\* C2 witness: a snapshot with keys has been written of a tree where a matched
\* directory holds an entry that the rule set does not match.
C2_Witness ==
    /\ pc = "saved"
    /\ DOMAIN attrs # {}
    /\ \E p \in ExcludedDirs :
         \E n \in DOMAIN fs :
             Parent(n) = p /\ fs[n].kind # "absent" /\ n \notin matched

\* Two live entries of a kind, differing in every attribute.
LiveEntries(kind) ==
    {BaseEntry(kind), Entry(kind, 1100, 2100, 0, 4, 2, {"hidden", "readonly"})}

InitRoundTrip ==
    /\ platform \in {"linux", "windows"}
    /\ utime_nofollow \in BOOLEAN
    /\ birthtime_ns \in BOOLEAN
    /\ fs \in [Paths -> UNION {LiveEntries(k) : k \in EntryKinds}]
    /\ InitSave

NextRoundTrip == NextSave \/ NextRestore

SpecRoundTrip == InitRoundTrip /\ [][NextRoundTrip]_vars

\* C1 (as claimed): a restore from a capture, with no skip flag and without
\* copy_creation_to_accessed, issues no OS mutation call and ends with
\* "Nothing to change." and the success status.
C1_RoundTripIdempotence ==
    origin = "captured" =>
        /\ calls = <<>>
        /\ pc = "exited" => printed_nothing /\ exit_code = SUCCESS

----------------------------------------------------------------------------
\* POSIX restore, no flags, of POSIX-shaped records that equal the live entry
\* or differ from it in the permission bits, the file type or the owner.

ModeRecs ==
    { Rec(TimeFields \cup PosixFields, Int_(1000), Int_(2000), Int_(3000), mode, owner, {}) :
        mode \in {6, 4, 6 + ModeBits}, owner \in {1, 2} }

InitMode ==
    /\ platform = "linux"
    /\ utime_nofollow \in BOOLEAN
    /\ config = ConfigOf({})
    /\ doc = "mapping"
    /\ \E K \in SUBSET Paths : attrs \in [K -> ModeRecs]
    /\ fs \in [Paths -> {BaseEntry(k) : k \in {"absent", "file", "link"}}]
    /\ excl = {}
    /\ origin = "given"
    /\ pc = "start"
    /\ InitPass
    /\ InitNoCmp
    /\ InitNoSave

SpecMode == InitMode /\ [][NextRestore]_vars

\* The positions in `calls` of the calls of one kind for one path.
CallsOf(p, op) == {i \in DOMAIN calls : calls[i].path = p /\ calls[i].op = op}

\* The record of p is POSIX-shaped and differs from the entry the pass found
\* (a BaseEntry) in the mode only; the path is not one restore skips.
OnlyModeDiffers(p) ==
    /\ model_validate(attrs[p]) = "AttrData"
    /\ fs[p].kind # "absent"
    /\ fs[p].kind = "link" => utime_nofollow
    /\ attrs[p].atime = Int_(BaseEntry("file").atime)
    /\ attrs[p].mtime = Int_(BaseEntry("file").mtime)
    /\ attrs[p].uid = BaseEntry("file").uid
    /\ attrs[p].gid = BaseEntry("file").gid
    /\ attrs[p].mode # BaseEntry("file").mode

\* C11 (as claimed): when the pass has ended and no OS call failed, a path
\* whose record differs from the live entry in the mode only has had exactly
\* one chmod call, with the stored mode, and no chown or utime call, and the
\* pass did not print "Nothing to change." and exited with the success status.
C11_SingleChmod ==
    (pc = "exited" /\ FailedPaths = {}) =>
        \A p \in DOMAIN attrs :
            OnlyModeDiffers(p) =>
                /\ Cardinality(CallsOf(p, "chmod")) = 1
                /\ \A i \in CallsOf(p, "chmod") : calls[i].arg = <<attrs[p].mode>>
                /\ CallsOf(p, "chown") = {} /\ CallsOf(p, "utime") = {}
                /\ ~printed_nothing
                /\ exit_code = SUCCESS

----------------------------------------------------------------------------
\* The record of p has the shape of the other platform: the Windows keys on
\* POSIX, the POSIX keys on Windows.
CrossShape(p) ==
    IF platform = "windows"
    THEN attrs[p].has = TimeFields \cup PosixFields
    ELSE attrs[p].has = TimeFields \cup WinFields

\* C12 (as claimed): a record of the other platform's shape never aborts the
\* pass, has no call issued for the fields that do not apply (chown, chmod on
\* POSIX; the flag write on Windows) and, when no OS call failed, is not in
\* the error list.
C12_CrossPlatformShapes ==
    \A p \in DOMAIN attrs :
        CrossShape(p) =>
            /\ outcome[p] \notin {"corrupt", "crash"}
            /\ (platform # "windows") => CallsOf(p, "chown") = {} /\ CallsOf(p, "chmod") = {}
            /\ (platform = "windows") => CallsOf(p, "setattr") = {}
            /\ FailedPaths = {} => p \notin Range(errored)

----------------------------------------------------------------------------
\* The name of q comes before the name of p as Python orders strings.
NameBefore(q, p) == LexLess(PathName(q), PathName(p))

\* C13: the keys are visited in ascending order of their names: a key is
\* visited only after every key of a smaller name, and neither the calls
\* issued (each announced by a printed line) nor the error list ever name a
\* path after a path of a greater name.
C13_LexicographicOrder ==
    /\ \A p \in DOMAIN attrs : \A q \in DOMAIN attrs :
          (outcome[p] # "pending" /\ NameBefore(q, p)) => outcome[q] # "pending"
    /\ \A i \in DOMAIN calls : \A j \in DOMAIN calls :
          i < j => ~NameBefore(calls[j].path, calls[i].path)
    /\ \A i \in DOMAIN errored : \A j \in DOMAIN errored :
          i < j => ~NameBefore(errored[j], errored[i])

\* C13 witness: the pass has ended with two paths in the error list, the
\* second key of the document first.
C13_Witness ==
    /\ pc = "exited"
    /\ Len(errored) = 2
    /\ errored[1] = 2 /\ errored[2] = 1
    /\ NameBefore(2, 1)

----------------------------------------------------------------------------
\* save with a user interrupt during the loop of collect_file_attrs.

SpecCapture == InitWalk /\ [][NextCapture]_vars

\* C14 (as claimed): a save ended by an interrupt during the attribute loop
\* has written a snapshot holding exactly the records collected before the
\* interrupt, and has exited with the user-interrupted status.
C14_InterruptDumpsPartial ==
    (pc = "exited" /\ interrupt.where # "none") =>
        /\ doc = "mapping"
        /\ DOMAIN attrs = {matched_items[i] : i \in 1..interrupt.at}
        /\ exit_code = USER_INTERRUPTED

----------------------------------------------------------------------------
\* Two restore passes in a row, over records of both shapes that differ from
\* the live entry in one attribute each, and over the flags.

RepeatRecs ==
    { Rec(TimeFields \cup PosixFields, Int_(1000), Int_(2000), Int_(3000), 6, 1, {}),
      Rec(TimeFields \cup PosixFields, Int_(1400), Int_(2000), Int_(3000), 4, 1, {}),
      Rec(TimeFields \cup PosixFields, Int_(1000), Int_(2000), Int_(3000), 6 + ModeBits, 2, {}),
      Rec(TimeFields \cup PosixFields, Float_(4), Float_(9), Float_(11), 6, 1, {}),
      Rec(TimeFields \cup WinFields, Int_(1000), Int_(2400), Int_(3700), 0, 0, {"hidden"}),
      Rec(TimeFields \cup WinFields, Int_(3000), Int_(2000), Int_(3000), 0, 0, {"archive"}) }

RepeatFlags == {"copy_to_access", "skip_modified", "skip_accessed", "skip_creation"}

InitRepeat ==
    /\ platform \in {"linux", "windows"}
    /\ utime_nofollow \in BOOLEAN
    /\ config \in {ConfigOf(S) : S \in SUBSET RepeatFlags}
    /\ doc = "mapping"
    /\ attrs \in [{1} -> RepeatRecs]
    /\ fs = [p \in Paths |-> IF p = 1 THEN BaseEntry("file") ELSE BaseEntry("absent")]
    /\ excl = {}
    /\ origin = "given"
    /\ pc = "start"
    /\ InitPass
    /\ InitNoCmp
    /\ InitNoSave

SpecRepeat == InitRepeat /\ [][NextRepeat]_vars

\* C15 (as claimed): the pass repeated after a pass that ended with the
\* success status issues no OS mutation call and ends with "Nothing to
\* change.".
C15_RestoreIdempotent ==
    pass_no = 2 =>
        /\ calls = <<>>
        /\ pc = "exited" => printed_nothing

----------------------------------------------------------------------------
\* A call for p that succeeded: the writer that issued it returned True and
\* the loop set `processed` for the path.
Mutated(p) == \E i \in DOMAIN calls : calls[i].path = p /\ calls[i].ok

\* C16 (as claimed): a path that was skipped has no OS mutation call, no path
\* is both changed and in the error list, and no path is in the error list
\* twice.
C16_OneOutcomePerPath ==
    \A p \in DOMAIN attrs :
        /\ outcome[p] \in {"notfound", "excluded", "symlink"} => p \notin CalledPaths
        /\ ~(Mutated(p) /\ p \in Range(errored))
        /\ Cardinality({i \in DOMAIN errored : errored[i] = p}) <= 1

----------------------------------------------------------------------------
\* The writers ran for p: it was found, validated, not excluded, not a
\* skipped link.
Processed(p) == outcome[p] \in {"applied", "oserror", "crash"}

\* C17 (as claimed): with copy_to_access, when no OS call failed, a processed
\* path whose stored creation time differs from its stored accessed time was
\* not the end of the pass, its last call is the one utime call that writes
\* the stored creation time as accessed time, and its live accessed time is
\* the stored creation time (in the resolution of the platform).
C17_CopyCreationToAccessed ==
    \A p \in DOMAIN attrs :
        ( /\ config.copy_to_access
          /\ Processed(p)
          /\ FailedPaths = {}
          /\ RawDiffers(attrs[p].ctime, attrs[p].atime) ) =>
            /\ outcome[p] = "applied"
            /\ Cardinality({i \in CallsOf(p, "utime") : calls[i].arg[1] = attrs[p].ctime}) = 1
            /\ calls # <<>>
            /\ calls[Len(calls)].op = "utime"
            /\ calls[Len(calls)].arg[1] = attrs[p].ctime
            /\ Abs(fs[p].atime - Nanos(attrs[p].ctime))
                  < (IF platform = "windows" THEN FILETIME_UNIT ELSE 1)

----------------------------------------------------------------------------
\* No attribute of any path differs from what the pass found (every entry of
\* Spec starts as the BaseEntry of its kind).
NothingMutated == \A p \in Paths : fs[p] = BaseEntry(fs[p].kind)

\* C18 (as claimed): a pass that reached its summary printed "Nothing to
\* change." exactly when it mutated no attribute of any path and its error
\* list is empty.
C18_AppliedIffMutated ==
    (pc = "exited" /\ uncaught = "none" /\ exit_code \in {SUCCESS, GENERIC_ERROR}) =>
        (printed_nothing <=> (NothingMutated /\ errored = <<>>))

----------------------------------------------------------------------------
\* C19: every OS mutation call issued for a link carries the no-follow
\* option, and is issued only when skip_links is unset and the platform
\* supports no-follow operation (os.utime does, or the platform is Windows).
C19_LinkNoFollow ==
    \A i \in DOMAIN calls :
        fs[calls[i].path].kind = "link" =>
            /\ calls[i].nofollow
            /\ ~config.skip_links
            /\ (utime_nofollow \/ platform = "windows")

\* C19 witness: the pass has ended after a chmod and a utime call for a link
\* that succeeded.
C19_Witness ==
    /\ pc = "exited"
    /\ \E i \in DOMAIN calls : \E j \in DOMAIN calls :
         /\ fs[calls[i].path].kind = "link"
         /\ calls[i].op = "chmod" /\ calls[i].ok
         /\ calls[j].path = calls[i].path
         /\ calls[j].op = "utime" /\ calls[j].ok

----------------------------------------------------------------------------
\* save on a tree with links to directories: the entries whose parent is a
\* link are what a scan of the link would list, the entries of its target.

LinkTargets(tree) ==
    /\ \E n \in DOMAIN tree : tree[n].kind = "link"
    /\ \A n \in DOMAIN tree :
          (Parent(n) # 0 /\ tree[Parent(n)].kind \notin {"dir", "link"})
              => tree[n].kind = "absent"

InitLinkWalk ==
    /\ platform \in {"linux", "windows"}
    /\ utime_nofollow = (platform = "linux")
    /\ birthtime_ns = TRUE
    /\ fs \in [1..MaxNodes -> {BaseEntry(k) : k \in EntryKinds}]
    /\ LinkTargets(fs)
    /\ rules \in BOOLEAN
    /\ matched \in SUBSET {n \in DOMAIN fs : fs[n].kind \in {"dir", "link"}}
    /\ ~rules => matched = {}
    /\ save_skip_links \in BOOLEAN
    /\ matched_items = <<>> /\ alternative_items_list = <<>>
    /\ interrupt = NoInterrupt
    /\ consecutive_errors = 0 /\ attr_reads = <<>>
    /\ doc = "missing"
    /\ attrs = <<>>
    /\ origin = "given"
    /\ config = ConfigOf({})
    /\ excl = {}
    /\ pc = "save"
    /\ InitPass
    /\ InitNoCmp

SpecLinkWalk == InitLinkWalk /\ [][NextSave]_vars

\* n lies below a link.
BelowLink(n) == \E p \in DOMAIN fs : fs[p].kind = "link" /\ IsDescendant(n, p)

\* The walk lists the directory that holds n, and no rule matches n.
Listed(n) ==
    /\ fs[n].kind # "absent"
    /\ ~(rules /\ n \in matched)
    /\ Parent(n) = 0 \/ (fs[Parent(n)].kind = "dir" /\ Parent(n) \in Range(matched_items))

\* C20: no gathered item lies below a link; with skip_links no gathered item
\* is a link; without it, once the walk is over, every link that is listed and
\* not excluded has been gathered exactly once.
C20_LinksAreLeaves ==
    /\ \A n \in Range(matched_items) :
          /\ ~BelowLink(n)
          /\ save_skip_links => fs[n].kind # "link"
    /\ origin = "captured" => \A k \in DOMAIN attrs : ~BelowLink(k)
    /\ (pc \in {"collect", "saved"} /\ ~save_skip_links) =>
          \A n \in DOMAIN fs :
              (fs[n].kind = "link" /\ Listed(n)) =>
                  Cardinality({i \in DOMAIN matched_items : matched_items[i] = n}) = 1

\* C20 witness: a snapshot has been written that holds a link whose target
\* has entries, skip_links unset.
C20_Witness ==
    /\ pc = "saved"
    /\ ~save_skip_links
    /\ \E n \in DOMAIN attrs :
         /\ fs[n].kind = "link"
         /\ \E c \in DOMAIN fs : Parent(c) = n /\ fs[c].kind # "absent"

----------------------------------------------------------------------------
\* Restore over files and links, records of both shapes that differ from the
\* live entry in every attribute or in none, with and without skip_links.

LinkRecs ==
    { Rec(TimeFields \cup PosixFields, Int_(1000), Int_(2000), Int_(3000), 6, 1, {}),
      Rec(TimeFields \cup PosixFields, Int_(1400), Int_(2400), Int_(3000), 4, 2, {}),
      Rec(TimeFields \cup WinFields, Int_(1400), Int_(2400), Int_(3700), 0, 0, {"hidden"}) }

InitLinks ==
    /\ platform \in {"linux", "windows"}
    /\ utime_nofollow \in BOOLEAN
    /\ config \in {ConfigOf(S) : S \in {{}, {"copy_to_access"}, {"skip_links"}}}
    /\ doc = "mapping"
    /\ \E K \in SUBSET Paths : attrs \in [K -> LinkRecs]
    /\ fs \in [Paths -> {BaseEntry(k) : k \in {"file", "link"}}]
    /\ excl = {}
    /\ origin = "given"
    /\ pc = "start"
    /\ InitPass
    /\ InitNoCmp
    /\ InitNoSave

SpecLinks == InitLinks /\ [][NextRestore]_vars

----------------------------------------------------------------------------
\* The Windows flag write, over SpecFlags.

\* The bits of a live attribute mask: the four flags and the others.
AttrBits == WinFields \cup {"other"}

\* The switch of RestoreConfig that skips a flag.
SkipOf(f) ==
    CASE f = "archive" -> config.skip_archive
      [] f = "hidden" -> config.skip_hidden
      [] f = "readonly" -> config.skip_readonly
      [] f = "system" -> config.skip_system

\* The stored value of a flag of p.
StoredFlag(p, f) ==
    CASE f = "archive" -> attrs[p].archive
      [] f = "hidden" -> attrs[p].hidden
      [] f = "readonly" -> attrs[p].readonly
      [] f = "system" -> attrs[p].system

\* The flags of p whose stored value differs from the live value and whose
\* switch is unset.
FlagsToWrite(p) ==
    {f \in WinFields : StoredFlag(p, f) # (f \in fs[p].fattr) /\ ~SkipOf(f)}

\* C21: no step leaves a path with more than one flag write; the mask of a
\* flag write the step issues is the live mask with exactly the differing,
\* unskipped flags set or cleared to their stored values, of which there is at
\* least one; and every other bit of the live mask of the path is after the
\* step what it was before.
C21_MinimalFlagWrite ==
    [][ \A p \in DOMAIN attrs :
          /\ Cardinality(FlagWrites(p)') <= 1
          /\ \A i \in FlagWrites(p)' \ FlagWrites(p) :
                /\ FlagsToWrite(p) # {}
                /\ calls'[i].arg =
                      (fs[p].fattr \cup {f \in FlagsToWrite(p) : StoredFlag(p, f)})
                          \ {f \in FlagsToWrite(p) : ~StoredFlag(p, f)}
          /\ \A b \in AttrBits \ FlagsToWrite(p) :
                (b \in fs'[p].fattr) <=> (b \in fs[p].fattr) ]_vars

\* C21 witness: a Windows pass has ended after one flag write that set hidden
\* and cleared archive, where readonly differed too and was skipped, and a bit
\* outside the four was set before.
C21_Witness ==
    /\ platform = "windows"
    /\ pc = "exited"
    /\ config = ConfigOf({"skip_readonly"})
    /\ WinFields \subseteq attrs[1].has
    /\ attrs[1].hidden /\ attrs[1].readonly /\ ~attrs[1].archive /\ ~attrs[1].system
    /\ Cardinality(FlagWrites(1)) = 1
    /\ \A i \in FlagWrites(1) : calls[i].ok
    /\ fs[1].fattr = {"hidden", "other"}

----------------------------------------------------------------------------
\* The positions in calls' of the timestamp writes this step issued for p.
NewTimeWrites(p) ==
    {i \in DOMAIN calls' : /\ i > Len(calls)
                            /\ calls'[i].path = p
                            /\ calls'[i].op \in {"utime", "set_times"}}

NoSkipFlag ==
    /\ ~config.skip_modified /\ ~config.skip_accessed /\ ~config.skip_creation
    /\ ~config.copy_to_access

\* C22 (as claimed): with no skip flag, a step that issues a timestamp write
\* for a path of which exactly one of the stored mtime and atime differs from
\* the live value leaves the live value of the other as it was.
C22_UnchangedTimestampKept ==
    [][ \A p \in DOMAIN attrs :
          (NoSkipFlag /\ NewTimeWrites(p) # {}) =>
              /\ (HoldsLive(attrs[p].atime, fs[p].atime)
                     /\ ~HoldsLive(attrs[p].mtime, fs[p].mtime))
                    => fs'[p].atime = fs[p].atime
              /\ (HoldsLive(attrs[p].mtime, fs[p].mtime)
                     /\ ~HoldsLive(attrs[p].atime, fs[p].atime))
                    => fs'[p].mtime = fs[p].mtime ]_vars

----------------------------------------------------------------------------
\* The os.utime call at position i of `calls` is the one of
\* copy_creation_to_accessed: on Windows every os.utime call is (the
\* timestamps are written by set_times), elsewhere the second one for a path.
IsCopyWrite(i) ==
    /\ calls[i].op = "utime"
    /\ \/ platform = "windows"
       \/ \E j \in 1..(i - 1) : calls[j].path = calls[i].path /\ calls[j].op = "utime"

\* The place of a call in the order ownership, permissions, flags, timestamps,
\* creation-to-accessed copy.
StepRank(i) ==
    CASE calls[i].op = "chown" -> 1
      [] calls[i].op = "chmod" -> 2
      [] calls[i].op = "setattr" -> 3
      [] calls[i].op = "set_times" -> 4
      [] calls[i].op = "utime" -> IF IsCopyWrite(i) THEN 5 ELSE 4

\* C23: of two calls for one path the earlier one belongs to an earlier step
\* of the order, and once a call for another path has been issued no call for
\* the first path follows.
C23_FixedStepOrder ==
    \A i \in DOMAIN calls : \A j \in DOMAIN calls :
        i < j =>
            IF calls[i].path = calls[j].path
            THEN StepRank(i) < StepRank(j)
            ELSE \A k \in DOMAIN calls : k > j => calls[k].path # calls[i].path

\* C23 witness: a pass has ended whose first path had its owner, its mode and
\* its timestamps written, in that order, before a call for the next path.
C23_Witness ==
    /\ pc = "exited"
    /\ Len(calls) >= 4
    /\ calls[1].op = "chown" /\ calls[2].op = "chmod" /\ calls[3].op = "utime"
    /\ calls[1].ok /\ calls[2].ok /\ calls[3].ok
    /\ calls[2].path = calls[1].path /\ calls[3].path = calls[1].path
    /\ calls[4].path # calls[1].path

----------------------------------------------------------------------------
\* C24 (as claimed): when the snapshot holds a record of no accepted shape, no
\* OS mutation call is issued for any of its paths.
C24_UntrustedSnapshotUntouched ==
    (PassBegun /\ CorruptKeys # {}) => calls = <<>>

----------------------------------------------------------------------------
\* The loop of collect_file_attrs one iteration at a time, over a list of
\* paths long enough for ten failures in a row, each get_attrs call raising an
\* exception or not.

\* The number of consecutive errors at which the loop is written to abort.
TOO_MANY_ERRORS == 10

\* The longest list of paths of the capture.
MaxItems == 11

\* One iteration of `for item in paths`.
CollectItem ==
    /\ pc = "collecting"
    /\ Len(attr_reads) < Len(matched_items)
    /\ IF consecutive_errors = TOO_MANY_ERRORS
       THEN \* "Too many consecutive errors": write what there is, sys.exit
            /\ doc' = IF DOMAIN attrs # {} THEN "mapping" ELSE doc
            /\ origin' = IF DOMAIN attrs # {} THEN "captured" ELSE origin
            /\ Exit(GENERIC_ERROR, "none")
            /\ UNCHANGED <<attrs, consecutive_errors, attr_reads>>
       ELSE \E item \in {matched_items[Len(attr_reads) + 1]} :
            \E ok \in {b \in BOOLEAN : b => birthtime_ns} :
                /\ attr_reads' = Append(attr_reads, [item |-> item, ok |-> ok])
                \* consecutive_errors = 0, then += 1 in the handler
                /\ consecutive_errors' = IF ok THEN 0 ELSE 0 + 1
                /\ attrs' = IF ok
                            THEN [k \in DOMAIN attrs \cup {item} |->
                                     IF k = item THEN get_attrs(fs[item], platform)
                                     ELSE attrs[k]]
                            ELSE attrs
                /\ UNCHANGED <<doc, origin, pc, exit_code, uncaught>>
    /\ UNCHANGED <<platform, utime_nofollow, config, fs, excl, idx,
                   processed, errored, calls, outcome, printed_nothing>>
    /\ UNCHANGED <<rules, matched, save_skip_links, birthtime_ns, matched_items,
                   alternative_items_list, interrupt>>
    /\ UNCHANGED cmpVars
    /\ UNCHANGED pass_no

\* write_attr_file after the loop.
CollectWrite ==
    /\ pc = "collecting"
    /\ Len(attr_reads) = Len(matched_items)
    /\ doc' = "mapping"
    /\ origin' = "captured"
    /\ pc' = "saved"
    /\ UNCHANGED <<platform, utime_nofollow, config, attrs, fs, excl, idx,
                   processed, errored, calls, outcome, printed_nothing, exit_code,
                   uncaught>>
    /\ UNCHANGED saveVars
    /\ UNCHANGED cmpVars
    /\ UNCHANGED pass_no

NextCollect == CollectItem \/ CollectWrite

\* get_paths has returned a list of files.
InitCollect ==
    /\ platform \in {"linux", "windows"}
    /\ utime_nofollow = (platform = "linux")
    /\ birthtime_ns = TRUE
    /\ fs = [n \in 1..MaxItems |-> BaseEntry("file")]
    /\ rules = FALSE /\ matched = {} /\ save_skip_links = FALSE
    /\ \E n \in 0..MaxItems : matched_items = [i \in 1..n |-> i]
    /\ alternative_items_list = <<>>
    /\ interrupt = NoInterrupt
    /\ consecutive_errors = 0 /\ attr_reads = <<>>
    /\ doc = "missing"
    /\ attrs = <<>>
    /\ origin = "given"
    /\ config = ConfigOf({})
    /\ excl = {}
    /\ pc = "collecting"
    /\ InitPass
    /\ InitNoCmp

SpecCollect == InitCollect /\ [][NextCollect]_vars

\* The get_attrs calls at positions i .. i + TOO_MANY_ERRORS - 1 all failed.
TenFailuresFrom(i) ==
    /\ i + TOO_MANY_ERRORS - 1 <= Len(attr_reads)
    /\ \A k \in i..(i + TOO_MANY_ERRORS - 1) : ~attr_reads[k].ok

\* C25 (as claimed): no entry is read after ten reads in a row have failed;
\* a capture that is over with entries left unread has exited with the generic
\* error status, with the snapshot written when there was a record; a capture
\* that is over without ten failures in a row has written the snapshot of
\* exactly the entries whose read succeeded.
C25_TenConsecutiveErrorsAbort ==
    /\ \A i \in DOMAIN attr_reads :
          TenFailuresFrom(i) => Len(attr_reads) = i + TOO_MANY_ERRORS - 1
    /\ (pc \in {"saved", "exited"} /\ Len(matched_items) > Len(attr_reads)) =>
          /\ exit_code = GENERIC_ERROR
          /\ DOMAIN attrs # {} => doc = "mapping"
    /\ (pc \in {"saved", "exited"} /\ ~\E i \in DOMAIN attr_reads : TenFailuresFrom(i)) =>
          /\ pc = "saved" /\ doc = "mapping"
          /\ DOMAIN attrs = {attr_reads[k].item : k \in {j \in DOMAIN attr_reads : attr_reads[j].ok}}

----------------------------------------------------------------------------
\* C26 (as claimed): a record that carries mode, uid and gid together with the
\* four flags is classified as the legacy shape, and when a Windows pass has
\* applied it without a failing call, every flag whose switch is unset has its
\* stored value on the live entry.
C26_LegacyShapeFlagsWritten ==
    \A p \in DOMAIN attrs :
        (attrs[p].has = AllFields /\ platform = "windows" /\ pc = "exited"
           /\ outcome[p] = "applied" /\ FailedPaths = {}) =>
            /\ model_validate(attrs[p]) = "OldWinAttrData"
            /\ \A f \in WinFields :
                  ~SkipOf(f) => ((f \in fs[p].fattr) <=> StoredFlag(p, f))

====
